---- MODULE Spec2Model ----
(***************************************************************************)
(* A model of the media backend: the sliding-window rate limiter           *)
(* (app/rate_limiter.py), the signed stream links (app/utils.py), the      *)
(* analytics cache (app/cache.py) and the endpoints that drive them        *)
(* (app/media.py).                                                         *)
(***************************************************************************)
EXTENDS Integers, Sequences, FiniteSets, TLC

VARIABLES
    now,        \* the wall clock, in whole seconds (time.time())
    settings,   \* app.config.settings, read from the environment at import
    requests,   \* RateLimiter._requests: client id -> deque of timestamps
    pc,         \* per worker thread: its position inside check_rate_limit
    locals,     \* per worker thread: client_id, current_time, current_count
    last,       \* the outcome of the check_rate_limit call that returned last
    admitted,   \* history: per client, how many requests were admitted at each instant
    calls,      \* history: how many check_rate_limit calls have begun
    assets,     \* the media_assets table: the rows have the ids 1..assets
    files,      \* the ids of the media whose file is in the storage directory
    viewlog,    \* the media_view_logs table, in insertion order
    issued,     \* history: the stream URLs handed out, with media and minting time
    resp,       \* the last HTTP response of a media endpoint, with what it did
    redis_client, \* CacheService.redis_client: "None" or "Redis"
    backend,    \* whether the Redis server answers: "up" or "down"
    store,      \* the Redis keys analytics:media:<id>: value and expiry time
    cachelog    \* history: per media id, the last snapshot set_analytics stored

rlVars == <<requests, pc, locals, last, admitted, calls>>
linkVars == <<assets, files, viewlog, issued, resp>>
cacheVars == <<redis_client, backend, store, cachelog>>
vars == <<now, settings, rlVars, linkVars, cacheVars>>

----------------------------------------------------------------------------
(* Bounds of the model *)

\* The clock visits the instants k * window + d, k <= MaxWindows, d <= MaxOffset.
MaxWindows == 1
MaxOffset == 1
\* RATE_LIMIT_PER_MINUTE is an environment setting; the model draws it from 1..MaxLimit.
MaxLimit == 2
\* The model follows the first MaxCalls calls of check_rate_limit.
MaxCalls == 4
\* STREAM_LINK_TTL_SECONDS is an environment setting; the model draws it from 0..MaxTtl.
MaxTtl == 1
\* At most MaxMedia media are uploaded, MaxLinks stream URLs handed out and
\* MaxViews view-log rows written.
MaxMedia == 2
MaxLinks == 1
MaxViews == 1
\* CACHE_TTL is an environment setting; the model draws it from 1..MaxCacheTtl.
MaxCacheTtl == 2

\* The worker threads of the server's thread pool that run sync dependencies.
Threads == {"t1", "t2"}

None == [present |-> FALSE]
Some(v) == [present |-> TRUE, value |-> v]

----------------------------------------------------------------------------
(* app/rate_limiter.py *)

\* RateLimiter.__init__: self._window_size = 60
WindowSize == 60

Instants == {k * WindowSize + d : k \in 0..MaxWindows, d \in 0..MaxOffset}

\* The requests the model sends. forwarded is the X-Forwarded-For header as its
\* comma-separated entries, each with the text that strip() leaves; real_ip is
\* the X-Real-IP header; client is request.client (None when the peer is unknown).
Entry(text, padded) == [text |-> text, padded |-> padded]
Requests ==
    { [forwarded |-> Some(<<Entry("c1", FALSE), Entry("c2", TRUE)>>),
       real_ip |-> Some("c2"), client |-> Some("c2")],
      [forwarded |-> None, real_ip |-> Some("c2"), client |-> Some("c1")],
      [forwarded |-> None, real_ip |-> None, client |-> Some("c1")] }

\* Python truthiness of an optional header: present and not the empty string.
HeaderTruthy(h, empty) == h.present /\ h.value # empty

FirstEntryStripped_Last(entries) == entries[Len(entries)].text

\* forwarded_for.split(",")[0].strip()
FirstEntryStripped(entries) == entries[1].text

_get_client_id(request) ==
    IF HeaderTruthy(request.forwarded, <<>>)
    THEN FirstEntryStripped(request.forwarded.value)
    ELSE IF HeaderTruthy(request.real_ip, "")
         THEN request.real_ip.value
         ELSE IF request.client.present THEN request.client.value ELSE "unknown"

ClientIds == {_get_client_id(r) : r \in Requests}

\* The requests that come without proxy headers.
DirectRequests == {r \in Requests : ~r.forwarded.present /\ ~r.real_ip.present}

GetOrCreate_OnlyCurrent(reqs, cid) ==
    [c \in {cid} |-> IF c \in DOMAIN reqs THEN reqs[c] ELSE <<>>]

\* self._requests[client_id] on a defaultdict(deque): the entry is created on
\* first access.
GetOrCreate(reqs, cid) ==
    IF cid \in DOMAIN reqs THEN reqs
    ELSE [c \in DOMAIN reqs \cup {cid} |-> IF c = cid THEN <<>> ELSE reqs[c]]

IsOld_AtWindow(dq, current_time) == current_time - dq[1] >= WindowSize

\* The loop condition of _cleanup_old_requests on a non-empty deque.
IsOld(dq, current_time) == current_time - dq[1] > WindowSize

\* _cleanup_old_requests run without interruption.
RECURSIVE _cleanup_old_requests(_, _)
_cleanup_old_requests(dq, current_time) ==
    IF dq # <<>> /\ IsOld(dq, current_time)
    THEN _cleanup_old_requests(Tail(dq), current_time)
    ELSE dq

Max(a, b) == IF a >= b THEN a ELSE b

\* rate_limit_info as check_rate_limit builds it before the decision.
RateLimitInfo(current_count, current_time) ==
    [limit |-> settings.RATE_LIMIT_PER_MINUTE,
     remaining |-> Max(0, settings.RATE_LIMIT_PER_MINUTE - current_count),
     reset_at |-> current_time + WindowSize,
     current_count |-> current_count]

\* What check_rate_limit returns once current_count has been read.
Denied(current_count) == current_count >= settings.RATE_LIMIT_PER_MINUTE

CheckResult_InfoAsBuilt(cid, current_time, current_count) ==
    [kind |-> "check", client |-> cid, time |-> current_time,
     allowed |-> ~Denied(current_count),
     info |-> RateLimitInfo(current_count, current_time)]

CheckResult(cid, current_time, current_count) ==
    LET info == RateLimitInfo(current_count, current_time) IN
    IF Denied(current_count)
    THEN [kind |-> "check", client |-> cid, time |-> current_time,
          allowed |-> FALSE, info |-> info]
    ELSE [kind |-> "check", client |-> cid, time |-> current_time,
          allowed |-> TRUE,
          info |-> [info EXCEPT !.remaining = @ - 1, !.current_count = @ + 1]]

AppendRequest_Shared(reqs, cid, current_time) ==
    [c \in DOMAIN reqs |-> Append(reqs[c], current_time)]

\* client_requests.append(current_time): the deque of this client alone grows.
AppendRequest(reqs, cid, current_time) ==
    [reqs EXCEPT ![cid] = Append(@, current_time)]

AfterDecision_AlwaysAppend(reqs, res) == AppendRequest(reqs, res.client, res.time)

\* check_rate_limit, lines 65-70: the deques after the decision; only an
\* allowed check appends.
AfterDecision(reqs, res) ==
    IF res.allowed THEN AppendRequest(reqs, res.client, res.time) ELSE reqs

NoLocals == [client_id |-> "", current_time |-> 0, current_count |-> 0]

AllIdle == \A t \in Threads : pc[t] = "idle"

\* check_rate_limit, lines 45-49: resolve the client, read the clock, fetch the deque.
Start(t, request) ==
    /\ pc[t] = "idle"
    /\ calls < MaxCalls
    /\ calls' = calls + 1
    /\ LET cid == _get_client_id(request) IN
       /\ requests' = GetOrCreate(requests, cid)
       /\ locals' = [locals EXCEPT ![t] = [client_id |-> cid, current_time |-> now,
                                            current_count |-> 0]]
    /\ pc' = [pc EXCEPT ![t] = "cleanup"]
    /\ UNCHANGED <<now, settings, last, admitted, linkVars, cacheVars>>

\* _cleanup_old_requests: the truth test of the deque in the loop condition.
CleanupTest(t) ==
    /\ pc[t] = "cleanup"
    /\ pc' = [pc EXCEPT ![t] =
                IF requests[locals[t].client_id] # <<>> THEN "peek" ELSE "count"]
    /\ UNCHANGED <<now, settings, requests, locals, last, admitted, calls, linkVars, cacheVars>>

\* _cleanup_old_requests: current_time - requests_deque[0] > window; indexing a
\* deque another thread has emptied meanwhile raises IndexError.
CleanupPeek(t) ==
    /\ pc[t] = "peek"
    /\ LET dq == requests[locals[t].client_id] IN
       IF dq = <<>>
       THEN /\ pc' = [pc EXCEPT ![t] = "idle"]
            /\ last' = [kind |-> "error", client |-> locals[t].client_id,
                        error |-> "IndexError"]
            /\ locals' = [locals EXCEPT ![t] = NoLocals]
       ELSE /\ pc' = [pc EXCEPT ![t] =
                        IF IsOld(dq, locals[t].current_time) THEN "pop" ELSE "count"]
            /\ UNCHANGED <<last, locals>>
    /\ UNCHANGED <<now, settings, requests, admitted, calls, linkVars, cacheVars>>

\* _cleanup_old_requests: requests_deque.popleft(), then back to the loop test.
CleanupPop(t) ==
    /\ pc[t] = "pop"
    /\ LET cid == locals[t].client_id IN
       IF requests[cid] = <<>>
       THEN /\ pc' = [pc EXCEPT ![t] = "idle"]
            /\ last' = [kind |-> "error", client |-> cid, error |-> "IndexError"]
            /\ locals' = [locals EXCEPT ![t] = NoLocals]
            /\ UNCHANGED requests
       ELSE /\ requests' = [requests EXCEPT ![cid] = Tail(@)]
            /\ pc' = [pc EXCEPT ![t] = "cleanup"]
            /\ UNCHANGED <<last, locals>>
    /\ UNCHANGED <<now, settings, admitted, calls, linkVars, cacheVars>>

\* check_rate_limit, line 55: current_count = len(client_requests).
Count(t) ==
    /\ pc[t] = "count"
    /\ locals' = [locals EXCEPT ![t].current_count = Len(requests[locals[t].client_id])]
    /\ pc' = [pc EXCEPT ![t] = "decide"]
    /\ UNCHANGED <<now, settings, requests, last, admitted, calls, linkVars, cacheVars>>

\* check_rate_limit, lines 56-75: decide on the count read before, append when
\* allowed, and return.
Decide(t) ==
    /\ pc[t] = "decide"
    /\ LET cid == locals[t].client_id
           res == CheckResult(cid, locals[t].current_time, locals[t].current_count)
       IN /\ last' = res
          /\ requests' = AfterDecision(requests, res)
          /\ admitted' = IF res.allowed
                         THEN [admitted EXCEPT ![cid][res.time] = @ + 1]
                         ELSE admitted
    /\ pc' = [pc EXCEPT ![t] = "idle"]
    /\ locals' = [locals EXCEPT ![t] = NoLocals]
    /\ UNCHANGED <<now, settings, calls, linkVars, cacheVars>>

\* check_rate_limit run without interruption: the decision and the deques after it.
check_rate_limit(reqs, cid, current_time) ==
    LET created == GetOrCreate(reqs, cid)
        cleaned == [created EXCEPT ![cid] = _cleanup_old_requests(@, current_time)]
        res == CheckResult(cid, current_time, Len(cleaned[cid]))
    IN [result |-> res, requests |-> AfterDecision(cleaned, res)]

\* A call of check_rate_limit that no other call overlaps.
CheckRateLimit(request) ==
    /\ calls < MaxCalls
    /\ LET chk == check_rate_limit(requests, _get_client_id(request), now) IN
       /\ requests' = chk.requests
       /\ last' = chk.result
       /\ admitted' = IF chk.result.allowed
                      THEN [admitted EXCEPT ![chk.result.client][now] = @ + 1]
                      ELSE admitted
    /\ calls' = calls + 1
    /\ UNCHANGED <<now, settings, pc, locals, linkVars, cacheVars>>

TooManyRequests_ResetAtDenial(info) ==
    [status |-> 429,
     detail |-> [message |-> "Rate limit exceeded. Too many requests.",
                 limit |-> info.limit, reset_at |-> info.reset_at - WindowSize,
                 retry_after |-> 60]]

\* enforce_rate_limit: the HTTPException raised for a denied check.
TooManyRequests(info) ==
    [status |-> 429,
     detail |-> [message |-> "Rate limit exceeded. Too many requests.",
                 limit |-> info.limit, reset_at |-> info.reset_at, retry_after |-> 60]]

----------------------------------------------------------------------------
(* app/utils.py: signed stream links *)

\* The outcome of a call: a returned value or a raised exception.
Ret(v) == [raised |-> FALSE, value |-> v]
Raise(e) == [raised |-> TRUE, error |-> e]

DigitChars == <<"0", "1", "2", "3", "4", "5", "6", "7", "8", "9">>

\* str(n) of an int, as its sequence of characters.
RECURSIVE Decimal(_)
Decimal(n) ==
    IF n < 0 THEN <<"-">> \o Decimal(-n)
    ELSE IF n < 10 THEN <<DigitChars[n + 1]>>
    ELSE Decimal(n \div 10) \o <<DigitChars[(n % 10) + 1]>>

DigitValue(ch) == CHOOSE d \in 0..9 : DigitChars[d + 1] = ch

RECURSIVE ParseDigits(_)
ParseDigits(chars) ==
    IF Len(chars) = 1 THEN DigitValue(chars[1])
    ELSE 10 * ParseDigits(SubSeq(chars, 1, Len(chars) - 1)) + DigitValue(chars[Len(chars)])

\* int(text) as the framework applies it to a path or query parameter declared int.
ParseInt(chars) ==
    IF chars[1] = "-" THEN 0 - ParseDigits(Tail(chars)) ELSE ParseDigits(chars)

\* f"/media/stream/{media_id}"
StreamPrefix == <<"/media/stream/">>
StreamPath(media_id) == StreamPrefix \o Decimal(media_id)

Message_ExpOnly(path, exp_epoch) == <<"?exp=">> \o Decimal(exp_epoch)

\* f"{path}?exp={exp_epoch}"
Message(path, exp_epoch) == path \o <<"?exp=">> \o Decimal(exp_epoch)

\* hmac.new(key, message, sha256).hexdigest(): an ASCII string that is a
\* collision-free function of key and message.
HexDigest(key, message) == [ascii |-> TRUE, key |-> key, message |-> message]

sign_stream_path(path, exp_epoch) ==
    HexDigest(settings.STREAM_SIGNING_SECRET, Message(path, exp_epoch))

\* hmac.compare_digest on two str: equality, and TypeError when either holds a
\* non-ASCII character.
compare_digest(a, b) ==
    IF a.ascii /\ b.ascii THEN Ret(a = b) ELSE Raise("TypeError")

IsExpired_AtExp(exp, t) == exp <= t

\* verify_stream_signature, line 22: exp < int(time.time())
IsExpired(exp, t) == exp < t

verify_stream_signature_SingleUse(path, exp, sig, t) ==
    IF viewlog # <<>> \/ IsExpired(exp, t) THEN Ret(FALSE)
    ELSE compare_digest(sign_stream_path(path, exp), sig)

verify_stream_signature(path, exp, sig, t) ==
    IF IsExpired(exp, t) THEN Ret(FALSE)
    ELSE compare_digest(sign_stream_path(path, exp), sig)

generate_stream_url_NoSig(media_id, t) ==
    [path |-> StreamPath(media_id),
     query |-> [exp |-> Decimal(t + settings.STREAM_LINK_TTL_SECONDS)]]

\* generate_stream_url at time t: the URL as its path and its urlencoded query.
generate_stream_url(media_id, t) ==
    LET path == StreamPath(media_id)
        exp == t + settings.STREAM_LINK_TTL_SECONDS
        sig == sign_stream_path(path, exp)
    IN [path |-> path, query |-> [exp |-> Decimal(exp), sig |-> sig]]

----------------------------------------------------------------------------
(* app/media.py: the endpoints *)

\* The route /media/stream/{media_id}?exp=..&sig=..: the handler's parameters.
RouteStream(url) ==
    [media_id |-> ParseInt(SubSeq(url.path, Len(StreamPrefix) + 1, Len(url.path))),
     exp |-> ParseInt(url.query.exp),
     sig |-> url.query.sig]

\* Signatures a client can send that it did not get from the server: an ASCII
\* string that is no digest of the server's, and a string with a non-ASCII
\* character.
ForgedSigs == { [ascii |-> TRUE, text |-> "00"], [ascii |-> FALSE, text |-> "non-ascii"] }

MakeUrl(media_id, exp, sig) ==
    [path |-> StreamPath(media_id), query |-> [exp |-> Decimal(exp), sig |-> sig]]

\* An issued URL with at most one of media id, expiry and signature changed.
TamperedUrls(l) ==
    LET p == RouteStream(l.url) IN
    {l.url}
    \cup {MakeUrl(m, p.exp, p.sig) : m \in 1..MaxMedia}
    \cup {MakeUrl(p.media_id, e, p.sig) : e \in {p.exp - 1, p.exp + 1}}
    \cup {MakeUrl(p.media_id, p.exp, g) :
            g \in ForgedSigs \cup {k.url.query.sig : k \in issued}}

\* The stream URLs a client may request: the URLs it was given, as they are or
\* tampered with, and URLs it made up, expired and not.
StreamUrls ==
    UNION {TamperedUrls(l) : l \in issued}
    \cup {MakeUrl(m, e, g) : m \in 1..MaxMedia, e \in {0, MaxWindows * WindowSize + MaxOffset},
                             g \in ForgedSigs}

\* request.client.host if request.client else "unknown"
ClientIp(request) == IF request.client.present THEN request.client.value ELSE "unknown"

Forbidden == [status |-> 403, detail |-> "Invalid or expired link"]

\* stream_media at time t: the response, the collaborators it used in order,
\* and whether it committed a view-log row.
stream_media(media_id, exp, sig, t) ==
    LET v == verify_stream_signature(StreamPath(media_id), exp, sig, t) IN
    IF v.raised
    THEN [status |-> 500, detail |-> v.error, verified |-> v,
          steps |-> <<"verify">>, log |-> FALSE]
    ELSE IF ~v.value
    THEN [status |-> Forbidden.status, detail |-> Forbidden.detail, verified |-> v,
          steps |-> <<"verify">>, log |-> FALSE]
    ELSE IF media_id \notin 1..assets
    THEN [status |-> 404, detail |-> "Media not found", verified |-> v,
          steps |-> <<"verify", "lookup">>, log |-> FALSE]
    ELSE IF media_id \notin files
    THEN [status |-> 404, detail |-> "File not found on disk", verified |-> v,
          steps |-> <<"verify", "lookup", "log", "file">>, log |-> TRUE]
    ELSE [status |-> 200, detail |-> "file", verified |-> v,
          steps |-> <<"verify", "lookup", "log", "file", "serve">>, log |-> TRUE]

\* GET /media/stream/{media_id}: no authentication.
StreamMedia(url, request) ==
    /\ LET p == RouteStream(url)
           out == stream_media(p.media_id, p.exp, p.sig, now)
       IN /\ out.log => Len(viewlog) < MaxViews
          /\ viewlog' = IF out.log
                        THEN Append(viewlog, [media_id |-> p.media_id,
                                              viewed_by_ip |-> ClientIp(request),
                                              timestamp |-> now])
                        ELSE viewlog
          /\ resp' = [endpoint |-> "stream", media_id |-> p.media_id, exp |-> p.exp,
                      sig |-> p.sig, time |-> now, status |-> out.status,
                      detail |-> out.detail, verified |-> out.verified,
                      steps |-> out.steps]
    /\ UNCHANGED <<now, settings, assets, files, issued, rlVars, cacheVars>>

\* GET /media/{media_id}/stream-url: get_current_user first, then the handler.
GetStreamUrl(media_id, authed) ==
    /\ Cardinality(issued) < MaxLinks
    /\ IF ~authed
       THEN /\ resp' = [endpoint |-> "stream-url", status |-> 401,
                        detail |-> "Could not validate credentials"]
            /\ UNCHANGED issued
       ELSE IF media_id \notin 1..assets
       THEN /\ resp' = [endpoint |-> "stream-url", status |-> 404,
                        detail |-> "Media not found"]
            /\ UNCHANGED issued
       ELSE LET url == generate_stream_url(media_id, now) IN
            /\ resp' = [endpoint |-> "stream-url", status |-> 200, stream_url |-> url]
            /\ issued' = issued \cup {[url |-> url, media_id |-> media_id,
                                       minted_at |-> now]}
    /\ UNCHANGED <<now, settings, assets, files, viewlog, rlVars, cacheVars>>

\* POST /media/: the file is written to storage and the row is committed.
CreateMedia(authed) ==
    /\ assets < MaxMedia
    /\ IF ~authed
       THEN /\ resp' = [endpoint |-> "create", status |-> 401,
                        detail |-> "Could not validate credentials"]
            /\ UNCHANGED <<assets, files>>
       ELSE /\ assets' = assets + 1
            /\ files' = files \cup {assets + 1}
            /\ resp' = [endpoint |-> "create", status |-> 200, id |-> assets + 1]
    /\ UNCHANGED <<now, settings, viewlog, issued, rlVars, cacheVars>>

\* A stored file disappears from the storage directory.
RemoveFile(media_id) ==
    /\ media_id \in files
    /\ files' = files \ {media_id}
    /\ UNCHANGED <<now, settings, assets, viewlog, issued, resp, rlVars, cacheVars>>

----------------------------------------------------------------------------
(* app/cache.py: the analytics cache *)

\* f"analytics:media:{media_id}"
CacheKey(media_id) == <<"analytics:media:">> \o Decimal(media_id)

\* Python values that reach the cache: the AnalyticsOut object the endpoint
\* builds, a dict, and a str.
AnalyticsOut(fields) == [kind |-> "AnalyticsOut", fields |-> fields]
PyDict(fields) == [kind |-> "dict", fields |-> fields]
PyStr(text) == [kind |-> "str", text |-> text]

\* str(obj) of a pydantic model: the text "name=value name=value ...".
StrOf(obj) == [repr_of |-> obj.fields]

\* json.dumps(obj, default=str): a dict becomes a JSON object; any other
\* object is handed to default, and the JSON text is the string str(obj).
json_dumps(obj) ==
    IF obj.kind = "dict" THEN [json |-> "object", members |-> obj.fields]
    ELSE IF obj.kind = "str" THEN [json |-> "string", text |-> obj.text]
    ELSE [json |-> "string", text |-> StrOf(obj)]

\* json.loads(text)
json_loads(text) ==
    IF text.json = "object" THEN PyDict(text.members) ELSE PyStr(text.text)

\* Python truthiness of what json.loads returned: a str or a dict that is not empty.
Truthy(value) ==
    IF value.kind = "str" THEN DOMAIN value.text.repr_of # {} ELSE DOMAIN value.fields # {}

\* The keys Redis still holds at time t: a key set with SETEX is gone once its
\* time to live has run out.
Unexpired(st, t) == [k \in {j \in DOMAIN st : t < st[j].expires_at} |-> st[k]]

Reachable == redis_client = "Redis" /\ backend = "up"

_connect_KeepClient == "Redis"

\* CacheService.__init__ and _connect: the client is kept when the ping is
\* answered and dropped when it raises.
_connect == IF backend = "up" THEN "Redis" ELSE "None"

\* CacheService.get_analytics: what it returns.
get_analytics(media_id) ==
    IF redis_client = "None" THEN Ret(None)
    ELSE IF backend = "down" THEN Ret(None)
    ELSE IF CacheKey(media_id) \in DOMAIN store
         THEN Ret(Some(json_loads(store[CacheKey(media_id)].value)))
         ELSE Ret(None)

set_analytics_Reconnect(media_id, analytics_data) ==
    IF redis_client = "None" /\ backend = "down"
    THEN [outcome |-> Ret(FALSE), store |-> store]
    ELSE IF backend = "down" \/ settings.CACHE_TTL <= 0
    THEN [outcome |-> Raise("AttributeError"), store |-> store]
    ELSE [outcome |-> Ret(TRUE),
          store |-> [k \in DOMAIN store \cup {CacheKey(media_id)} |->
                       IF k = CacheKey(media_id)
                       THEN [value |-> json_dumps(analytics_data),
                             expires_at |-> now + settings.CACHE_TTL]
                       ELSE store[k]]]

\* CacheService.set_analytics: what it returns or raises, and the keys after it.
\* A RedisError from setex reaches the except clause, whose tuple names
\* json.JSONEncodeError, which the json module does not have: AttributeError.
set_analytics(media_id, analytics_data) ==
    IF redis_client = "None" THEN [outcome |-> Ret(FALSE), store |-> store]
    ELSE IF backend = "down" \/ settings.CACHE_TTL <= 0
    THEN [outcome |-> Raise("AttributeError"), store |-> store]
    ELSE [outcome |-> Ret(TRUE),
          store |-> [k \in DOMAIN store \cup {CacheKey(media_id)} |->
                       IF k = CacheKey(media_id)
                       THEN [value |-> json_dumps(analytics_data),
                             expires_at |-> now + settings.CACHE_TTL]
                       ELSE store[k]]]

\* CacheService.invalidate_analytics: what it returns, and the keys after it.
invalidate_analytics(media_id) ==
    IF redis_client = "None" \/ backend = "down"
    THEN [outcome |-> Ret(FALSE), store |-> store]
    ELSE [outcome |-> Ret(CacheKey(media_id) \in DOMAIN store),
          store |-> [k \in DOMAIN store \ {CacheKey(media_id)} |-> store[k]]]

health_check_NoPing ==
    IF redis_client = "None"
    THEN Ret([status |-> "disabled",
              message |-> "Redis not available - running without cache"])
    ELSE Ret([status |-> "healthy", message |-> "Redis connection active"])

\* CacheService.health_check: what it returns. The ping raises a RedisError
\* when the server does not answer.
health_check ==
    IF redis_client = "None"
    THEN Ret([status |-> "disabled",
              message |-> "Redis not available - running without cache"])
    ELSE IF backend = "up"
    THEN Ret([status |-> "healthy", message |-> "Redis connection active"])
    ELSE Ret([status |-> "error", message |-> "Redis error"])

\* A caller asks the cache service for its health.
HealthCheck ==
    /\ resp' = [endpoint |-> "health", outcome |-> health_check]
    /\ UNCHANGED <<now, settings, rlVars, assets, files, viewlog, issued, cacheVars>>

----------------------------------------------------------------------------
(* app/media.py: view logging and analytics *)

\* timedelta(days=7), in seconds
SevenDays == 604800

RowsOf(media_id) == {i \in 1..Len(viewlog) : viewlog[i].media_id = media_id}

\* The three aggregate queries of get_media_analytics. The title and the
\* upload date are copied from the media row and are left out.
ComputeAnalytics(media_id) ==
    AnalyticsOut([media_id |-> media_id,
                  total_views |-> Cardinality(RowsOf(media_id)),
                  unique_viewers |->
                      Cardinality({viewlog[i].viewed_by_ip : i \in RowsOf(media_id)}),
                  recent_views_7days |->
                      Cardinality({i \in RowsOf(media_id) :
                                      viewlog[i].timestamp >= now - SevenDays})])

\* response_model=AnalyticsOut: the returned value must validate as AnalyticsOut.
ValidatesAsAnalyticsOut(value) == value.kind \in {"AnalyticsOut", "dict"}

Unauthorized(endpoint) ==
    [endpoint |-> endpoint, status |-> 401, detail |-> "Could not validate credentials"]

GetMediaAnalytics_CacheFirst(media_id, authed) ==
    /\ authed
    /\ LET cached == get_analytics(media_id) IN
       IF cached.value.present /\ Truthy(cached.value.value)
       THEN resp' = [endpoint |-> "analytics", media_id |-> media_id,
                     time |-> now, cache_get |-> cached, cache_set |-> None,
                     status |-> IF ValidatesAsAnalyticsOut(cached.value.value)
                                THEN 200 ELSE 500,
                     body |-> cached.value.value]
       ELSE resp' = [endpoint |-> "analytics", status |-> 404,
                     detail |-> "Media not found"]
    /\ UNCHANGED <<now, settings, rlVars, assets, files, viewlog, issued, cacheVars>>

\* GET /media/{media_id}/analytics
GetMediaAnalytics(media_id, authed) ==
    /\ IF ~authed
       THEN /\ resp' = Unauthorized("analytics")
            /\ UNCHANGED <<store, cachelog>>
       ELSE IF media_id \notin 1..assets
       THEN /\ resp' = [endpoint |-> "analytics", status |-> 404,
                        detail |-> "Media not found"]
            /\ UNCHANGED <<store, cachelog>>
       ELSE LET cached == get_analytics(media_id) IN
            IF cached.value.present /\ Truthy(cached.value.value)
            THEN /\ resp' = [endpoint |-> "analytics", media_id |-> media_id,
                             time |-> now, cache_get |-> cached, cache_set |-> None,
                             status |-> IF ValidatesAsAnalyticsOut(cached.value.value)
                                        THEN 200 ELSE 500,
                             body |-> cached.value.value]
                 /\ UNCHANGED <<store, cachelog>>
            ELSE LET data == ComputeAnalytics(media_id)
                     put == set_analytics(media_id, data)
                 IN /\ resp' = [endpoint |-> "analytics", media_id |-> media_id,
                                time |-> now, cache_get |-> cached,
                                cache_set |-> Some(put.outcome),
                                status |-> IF put.outcome.raised THEN 500 ELSE 200,
                                body |-> data]
                    /\ store' = put.store
                    /\ cachelog' =
                         IF put.outcome = Ret(TRUE)
                         THEN [m \in DOMAIN cachelog \cup {media_id} |->
                                 IF m = media_id
                                 THEN [snapshot |-> data, time |-> now, valid |-> TRUE]
                                 ELSE cachelog[m]]
                         ELSE cachelog
    /\ UNCHANGED <<now, settings, rlVars, assets, files, viewlog, issued,
                   redis_client, backend>>

\* get_media_analytics run by worker thread t, lines 165-197: the media row is
\* looked up and the cache is asked; a hit is returned at once, on a miss the
\* numbers are computed from the view log and the thread goes on to line 200.
AnalyticsCompute(t, media_id) ==
    /\ pc[t] = "idle"
    /\ IF media_id \notin 1..assets
       THEN /\ resp' = [endpoint |-> "analytics", status |-> 404,
                        detail |-> "Media not found"]
            /\ UNCHANGED <<pc, locals>>
       ELSE LET cached == get_analytics(media_id) IN
            IF cached.value.present /\ Truthy(cached.value.value)
            THEN /\ resp' = [endpoint |-> "analytics", media_id |-> media_id,
                             time |-> now, cache_get |-> cached, cache_set |-> None,
                             status |-> IF ValidatesAsAnalyticsOut(cached.value.value)
                                        THEN 200 ELSE 500,
                             body |-> cached.value.value]
                 /\ UNCHANGED <<pc, locals>>
            ELSE /\ pc' = [pc EXCEPT ![t] = "set_analytics"]
                 /\ locals' = [locals EXCEPT ![t] =
                                 [media_id |-> media_id, cached_analytics |-> cached,
                                  analytics_data |-> ComputeAnalytics(media_id)]]
                 /\ UNCHANGED resp
    /\ UNCHANGED <<now, settings, requests, last, admitted, calls, assets, files,
                   viewlog, issued, cacheVars>>

\* get_media_analytics run by worker thread t, lines 200-204: the numbers
\* computed before are handed to set_analytics and returned.
AnalyticsStore(t) ==
    /\ pc[t] = "set_analytics"
    /\ LET media_id == locals[t].media_id
           data == locals[t].analytics_data
           put == set_analytics(media_id, data)
       IN /\ resp' = [endpoint |-> "analytics", media_id |-> media_id,
                      time |-> now, cache_get |-> locals[t].cached_analytics,
                      cache_set |-> Some(put.outcome),
                      status |-> IF put.outcome.raised THEN 500 ELSE 200,
                      body |-> data]
          /\ store' = put.store
          /\ cachelog' =
               IF put.outcome = Ret(TRUE)
               THEN [m \in DOMAIN cachelog \cup {media_id} |->
                       IF m = media_id
                       THEN [snapshot |-> data, time |-> now, valid |-> TRUE]
                       ELSE cachelog[m]]
               ELSE cachelog
    /\ pc' = [pc EXCEPT ![t] = "idle"]
    /\ locals' = [locals EXCEPT ![t] = NoLocals]
    /\ UNCHANGED <<now, settings, requests, last, admitted, calls, assets, files,
                   viewlog, issued, redis_client, backend>>

enforce_rate_limit_Lenient(res) == Ret(res.info)

\* enforce_rate_limit: the rate-limit info of an allowed check, HTTPException
\* 429 for a denied one.
enforce_rate_limit(res) ==
    IF ~res.allowed THEN Raise(TooManyRequests(res.info)) ELSE Ret(res.info)

ViewWrites_InvalidateFirst(media_id) ==
    <<[op |-> "invalidate", media_id |-> media_id],
      [op |-> "commit", media_id |-> media_id]>>

\* log_media_view, lines 132-142: what the handler does to the view log and
\* to the cache, in the order in which it does it.
ViewWrites(media_id) ==
    <<[op |-> "commit", media_id |-> media_id],
      [op |-> "invalidate", media_id |-> media_id]>>

\* The media id that the write op of a handler's writes is about.
TargetOf(writes, op) == writes[CHOOSE i \in 1..Len(writes) : writes[i].op = op].media_id

LogMediaView_LookupFirst(media_id, request, authed) ==
    /\ calls < MaxCalls
    /\ authed
    /\ media_id \notin 1..assets
    /\ resp' = [endpoint |-> "view", media_id |-> media_id, writes |-> <<>>,
                status |-> 404, detail |-> "Media not found"]
    /\ UNCHANGED <<now, settings, rlVars, assets, files, viewlog, issued, cacheVars>>

\* POST /media/{media_id}/view: get_current_user, then rate_limit_dependency,
\* then the handler.
LogMediaView(media_id, request, authed) ==
    /\ calls < MaxCalls
    /\ IF ~authed
       THEN /\ resp' = Unauthorized("view")
            /\ UNCHANGED <<requests, last, admitted, calls, viewlog, store, cachelog>>
       ELSE LET chk == check_rate_limit(requests, _get_client_id(request), now)
                res == chk.result
                enforced == enforce_rate_limit(res)
            IN /\ requests' = chk.requests
               /\ last' = res
               /\ calls' = calls + 1
               /\ admitted' = IF res.allowed
                              THEN [admitted EXCEPT ![res.client][now] = @ + 1]
                              ELSE admitted
               /\ IF enforced.raised
                  THEN /\ resp' = [endpoint |-> "view", media_id |-> media_id,
                                   writes |-> <<>>] @@ enforced.error
                       /\ UNCHANGED <<viewlog, store, cachelog>>
                  ELSE IF media_id \notin 1..assets
                  THEN /\ resp' = [endpoint |-> "view", media_id |-> media_id,
                                   writes |-> <<>>, status |-> 404,
                                   detail |-> "Media not found"]
                       /\ UNCHANGED <<viewlog, store, cachelog>>
                  ELSE LET writes == ViewWrites(media_id)
                           inv == invalidate_analytics(TargetOf(writes, "invalidate"))
                       IN
                       /\ Len(viewlog) < MaxViews
                       /\ viewlog' = Append(viewlog,
                                            [media_id |-> TargetOf(writes, "commit"),
                                             viewed_by_ip |-> ClientIp(request),
                                             timestamp |-> now])
                       /\ store' = inv.store
                       /\ cachelog' = [m \in DOMAIN cachelog |->
                                         IF m = TargetOf(writes, "invalidate")
                                         THEN [cachelog[m] EXCEPT !.valid = FALSE]
                                         ELSE cachelog[m]]
                       /\ resp' = [endpoint |-> "view", status |-> 200,
                                   media_id |-> media_id, timestamp |-> now,
                                   viewer_ip |-> ClientIp(request),
                                   writes |-> writes, invalidated |-> inv.outcome]
    /\ UNCHANGED <<now, settings, pc, locals, assets, files, issued,
                   redis_client, backend>>

\* The Redis server stops answering, or answers again.
BackendFails ==
    /\ backend = "up"
    /\ backend' = "down"
    /\ UNCHANGED <<now, settings, rlVars, linkVars, redis_client, store, cachelog>>

BackendRecovers ==
    /\ backend = "down"
    /\ backend' = "up"
    /\ UNCHANGED <<now, settings, rlVars, linkVars, redis_client, store, cachelog>>

\* The clock moves on to a later instant; Redis drops the keys that expire.
Tick ==
    /\ \E later \in Instants :
          /\ later > now
          /\ now' = later
          /\ store' = Unexpired(store, later)
    /\ UNCHANGED <<settings, rlVars, linkVars, redis_client, backend, cachelog>>

----------------------------------------------------------------------------
(* Specifications *)

Init ==
    /\ now = 0
    /\ settings \in [RATE_LIMIT_PER_MINUTE : 1..MaxLimit,
                      STREAM_LINK_TTL_SECONDS : 0..MaxTtl,
                      STREAM_SIGNING_SECRET : {"dev_stream"},
                      CACHE_TTL : 1..MaxCacheTtl]
    /\ requests = <<>>
    /\ pc = [t \in Threads |-> "idle"]
    /\ locals = [t \in Threads |-> NoLocals]
    /\ last = [kind |-> "none"]
    /\ admitted = [c \in ClientIds |-> [i \in Instants |-> 0]]
    /\ calls = 0
    /\ assets = 0
    /\ files = {}
    /\ viewlog = <<>>
    /\ issued = {}
    /\ resp = [endpoint |-> "none"]
    /\ backend \in {"up", "down"}
    /\ redis_client = _connect
    /\ store = <<>>
    /\ cachelog = <<>>

\* The settings a specification does not exercise stay at one value.
InitRL ==
    /\ Init
    /\ settings.STREAM_LINK_TTL_SECONDS = MaxTtl
    /\ settings.CACHE_TTL = MaxCacheTtl
    /\ backend = "down"
InitLink ==
    /\ Init
    /\ settings.RATE_LIMIT_PER_MINUTE = MaxLimit
    /\ settings.CACHE_TTL = MaxCacheTtl
    /\ backend = "down"
InitCache ==
    /\ Init
    /\ settings.RATE_LIMIT_PER_MINUTE = MaxLimit
    /\ settings.STREAM_LINK_TTL_SECONDS = MaxTtl

CheckSteps(t) ==
    \/ CleanupTest(t)
    \/ CleanupPeek(t)
    \/ CleanupPop(t)
    \/ Count(t)
    \/ Decide(t)

\* Concurrent requests: every worker thread runs check_rate_limit on its own.
NextRL ==
    \/ Tick
    \/ \E t \in Threads, r \in Requests : Start(t, r)
    \/ \E t \in Threads : CheckSteps(t)

SpecRL == InitRL /\ [][NextRL]_vars

\* Sequential calls: a call starts only when no other call is in progress.
NextSeq ==
    \/ Tick
    \/ \E r \in Requests : AllIdle /\ Start("t1", r)
    \/ CheckSteps("t1")

SpecSeq == InitRL /\ [][NextSeq]_vars

\* Stream links: uploads, stream-url requests and stream requests, one at a time.
NextLink ==
    \/ Tick
    \/ \E authed \in BOOLEAN : CreateMedia(authed)
    \/ \E m \in 1..MaxMedia : RemoveFile(m)
    \/ \E m \in 1..MaxMedia, authed \in BOOLEAN : GetStreamUrl(m, authed)
    \/ \E url \in StreamUrls, r \in DirectRequests : StreamMedia(url, r)

SpecLink == InitLink /\ [][NextLink]_vars

\* The analytics cache: uploads, view logging and analytics reads, one request
\* at a time, with a Redis server that may fail and recover.
NextCache ==
    \/ Tick
    \/ BackendFails
    \/ BackendRecovers
    \/ \E authed \in BOOLEAN : CreateMedia(authed)
    \/ \E m \in 1..MaxMedia, authed \in BOOLEAN : GetMediaAnalytics(m, authed)
    \/ \E m \in 1..MaxMedia, r \in DirectRequests, authed \in BOOLEAN :
          LogMediaView(m, r, authed)

SpecCache == InitCache /\ [][NextCache]_vars

\* The whole media API with a Redis server that answers: uploads, stream links
\* requested as they were issued, view logging of existing media and analytics
\* reads, all by authenticated clients without proxy headers, one request at a
\* time.
InitApp ==
    /\ InitCache
    /\ backend = "up"

NextApp ==
    \/ Tick
    \/ CreateMedia(TRUE)
    \/ \E m \in 1..MaxMedia : GetStreamUrl(m, TRUE)
    \/ \E l \in issued, r \in DirectRequests : StreamMedia(l.url, r)
    \/ \E m \in 1..MaxMedia : GetMediaAnalytics(m, TRUE)
    \/ \E m \in 1..assets, r \in DirectRequests : LogMediaView(m, r, TRUE)

SpecApp == InitApp /\ [][NextApp]_vars

\* The requests _get_client_id may be given. A header is absent, empty (the
\* sequence <<>>) or a list of entries, some empty or padded with blanks (the
\* lone unpadded empty entry would be the empty header again); the real-ip
\* header is absent, empty or an address; the peer is known or not.
EntryTexts == {"", "c1", "c2"}
Entries == {Entry(x, p) : x \in EntryTexts, p \in BOOLEAN}
ForwardedHeaders ==
    {None, Some(<<>>)}
    \cup {Some(<<e>>) : e \in Entries \ {Entry("", FALSE)}}
    \cup {Some(<<e, f>>) : e \in Entries, f \in Entries}
AllRequests ==
    [forwarded : ForwardedHeaders,
     real_ip : {None, Some(""), Some("c1"), Some("c2")},
     client : {None, Some("c1"), Some("c2")}]

\* rate_limiter._get_client_id(request) is called and its result kept.
ResolveClient(request) ==
    /\ resp' = [endpoint |-> "client_id", request |-> request,
                outcome |-> Ret(_get_client_id(request))]
    /\ UNCHANGED <<now, settings, rlVars, assets, files, viewlog, issued, cacheVars>>

NextIdentity == \E request \in AllRequests : ResolveClient(request)

SpecIdentity == InitRL /\ [][NextIdentity]_vars

\* The cache service observed: analytics reads fill the cache, the server
\* fails and recovers, and the health of the service is asked for.
NextHealth ==
    \/ Tick
    \/ BackendFails
    \/ BackendRecovers
    \/ CreateMedia(TRUE)
    \/ \E m \in 1..MaxMedia : GetMediaAnalytics(m, TRUE)
    \/ HealthCheck

SpecHealth == InitCache /\ [][NextHealth]_vars

\* A Redis server that outlived the database: it holds analytics keys,
\* written by set_analytics, for media ids that have no record (yet).
OrphanEntry(media_id) ==
    [value |-> json_dumps(ComputeAnalytics(media_id)), expires_at |-> MaxCacheTtl]
OrphanStores ==
    {[k \in {CacheKey(m) : m \in S} |-> OrphanEntry(CHOOSE m \in S : CacheKey(m) = k)] :
        S \in SUBSET (1..MaxMedia)}
InitOrphan ==
    /\ now = 0
    /\ settings \in [RATE_LIMIT_PER_MINUTE : {MaxLimit},
                      STREAM_LINK_TTL_SECONDS : {MaxTtl},
                      STREAM_SIGNING_SECRET : {"dev_stream"},
                      CACHE_TTL : 1..MaxCacheTtl]
    /\ requests = <<>>
    /\ pc = [t \in Threads |-> "idle"]
    /\ locals = [t \in Threads |-> NoLocals]
    /\ last = [kind |-> "none"]
    /\ admitted = [c \in ClientIds |-> [i \in Instants |-> 0]]
    /\ calls = 0
    /\ assets = 0
    /\ files = {}
    /\ viewlog = <<>>
    /\ issued = {}
    /\ resp = [endpoint |-> "none"]
    /\ backend = "up"
    /\ redis_client = _connect
    /\ store \in OrphanStores
    /\ cachelog = <<>>

NextOrphan ==
    \/ Tick
    \/ BackendFails
    \/ BackendRecovers
    \/ CreateMedia(TRUE)
    \/ \E m \in 1..MaxMedia : GetMediaAnalytics(m, TRUE)

SpecOrphan == InitOrphan /\ [][NextOrphan]_vars

\* Whole calls of check_rate_limit, one after the other, as time passes.
NextThrottle ==
    \/ Tick
    \/ \E r \in Requests : CheckRateLimit(r)

SpecThrottle == InitRL /\ [][NextThrottle]_vars

\* Analytics reads run by worker threads next to view logging: a read can be
\* between its queries and its set_analytics while a view is logged.
NextRace ==
    \/ Tick
    \/ CreateMedia(TRUE)
    \/ \E t \in Threads, m \in 1..MaxMedia : AnalyticsCompute(t, m)
    \/ \E t \in Threads : AnalyticsStore(t)
    \/ \E m \in 1..assets, r \in DirectRequests : LogMediaView(m, r, TRUE)

SpecRace == InitApp /\ [][NextRace]_vars

\* The stream links next to the other state of the service: links are minted
\* and used, views are logged, admitted and denied, and the Redis server stops
\* answering, so that invalidations fail.
InitStateless ==
    /\ InitApp
    /\ settings.CACHE_TTL = MaxCacheTtl

NextStateless ==
    \/ Tick
    \/ BackendFails
    \/ CreateMedia(TRUE)
    \/ \E m \in 1..MaxMedia : GetStreamUrl(m, TRUE)
    \/ \E l \in issued, r \in DirectRequests : StreamMedia(l.url, r)
    \/ \E m \in 1..MaxMedia, r \in DirectRequests : LogMediaView(m, r, TRUE)

SpecStateless == InitStateless /\ [][NextStateless]_vars

Next == NextRL
Spec == Init /\ [][Next]_vars

----------------------------------------------------------------------------
(* Claims about the rate limiter *)

RECURSIVE SumOver(_, _)
SumOver(S, f) ==
    IF S = {} THEN 0
    ELSE LET x == CHOOSE y \in S : TRUE IN f[x] + SumOver(S \ {x}, f)

\* The requests of a history that a check at current_time still counts:
\* those with current_time - timestamp <= window.
AdmittedInWindow(hist, current_time) ==
    SumOver({i \in Instants : current_time - i <= WindowSize}, hist)

\* The entries of a deque that lie within the window that ends at t.
EntriesInWindow(dq, t) == Cardinality({i \in 1..Len(dq) : t - dq[i] <= WindowSize})

Limit == settings.RATE_LIMIT_PER_MINUTE

\* Thread t returns from check_rate_limit with a decision in this step.
Returns(t) == pc[t] = "decide" /\ pc'[t] = "idle"

\* The client on whose behalf thread t takes this step.
ActingClient(t) == IF pc[t] = "idle" THEN locals'[t].client_id ELSE locals[t].client_id

Deque(reqs, c) == IF c \in DOMAIN reqs THEN Some(reqs[c]) ELSE None

\* C1: under any interleaving of concurrent check_rate_limit calls, the number
\* of admitted requests recorded for a client within the trailing window never
\* exceeds the limit (purge-count-decide-append acts as one critical section).
C1_AtomicPerClient ==
    \A c \in DOMAIN requests : EntriesInWindow(requests[c], now) <= Limit

\* C2: for sequential calls with a non-decreasing clock, a check is allowed if
\* and only if fewer than L previously admitted requests of that client have
\* now - timestamp <= W.
C2_SlidingWindow ==
    [][\A t \in Threads : Returns(t) =>
          (last'.allowed <=>
             AdmittedInWindow(admitted[locals[t].client_id], locals[t].current_time)
               < Limit)]_vars

\* C2 witness: L requests admitted at time 0, one more denied, and after the
\* clock has moved more than W past 0 the same client is admitted again.
C2_Witness ==
    \E c \in ClientIds :
        /\ admitted[c][0] = Limit
        /\ last.kind = "check" /\ last.client = c /\ last.allowed
        /\ last.time > WindowSize
        /\ calls = Limit + 2
        /\ \A d \in ClientIds \ {c} : AdmittedInWindow(admitted[d], 0) = 0
        /\ SumOver(Instants, admitted[c]) = Limit + 1

\* C3: a check_rate_limit step for one client leaves the deque of every other
\* client as it was, and the decision and the remaining quota a client is told
\* depend on that client's own admitted requests alone.
C3_ClientIsolation ==
    [][\A t \in Threads : pc'[t] # pc[t] =>
          /\ \A c2 \in ClientIds \ {ActingClient(t)} :
                Deque(requests', c2) = Deque(requests, c2)
          /\ Returns(t) =>
                LET own == AdmittedInWindow(admitted[locals[t].client_id],
                                            locals[t].current_time)
                IN /\ last'.allowed <=> own < Limit
                   /\ last'.info.remaining =
                        Max(0, Limit - own) - (IF last'.allowed THEN 1 ELSE 0)]_vars

\* C3 witness: one client has used up its quota while another client, checked
\* afterwards at the same instant, is admitted with its full quota reported.
C3_Witness ==
    \E c1, c2 \in ClientIds :
        /\ c1 # c2
        /\ c1 \in DOMAIN requests /\ Len(requests[c1]) = Limit
        /\ last.kind = "check" /\ last.client = c2 /\ last.allowed
        /\ last.time = now /\ EntriesInWindow(requests[c1], now) = Limit
        /\ last.info.remaining = Limit - 1

----------------------------------------------------------------------------
(* Claims about the signed stream links *)

IsStream == resp.endpoint = "stream"

\* What the last stream request carried, as the handler received it.
Carried == [media_id |-> resp.media_id, exp |-> resp.exp, sig |-> resp.sig]

\* The fields in which the last stream request differs from a link.
Changed(p) == {k \in {"media_id", "exp", "sig"} : Carried[k] # p[k]}

Passed == resp.verified = Ret(TRUE)
Failed == resp.verified = Ret(FALSE)

\* C4: a link minted at t0 (exp = t0 + ttl, sig = sign_stream_path(path, exp))
\* verifies as true at now = t0 and as false at every now > exp, for every
\* media path and every ttl >= 0.
C4_RoundTrip ==
    \A l \in issued :
        LET p == RouteStream(l.url) IN
        /\ p.exp = l.minted_at + settings.STREAM_LINK_TTL_SECONDS
        /\ p.sig = sign_stream_path(l.url.path, p.exp)
        /\ verify_stream_signature(l.url.path, p.exp, p.sig, l.minted_at) = Ret(TRUE)
        /\ \A t \in Instants :
              t > p.exp => verify_stream_signature(l.url.path, p.exp, p.sig, t) = Ret(FALSE)
        /\ (IsStream /\ Carried = p) =>
              /\ resp.time = l.minted_at => Passed
              /\ resp.time > p.exp => Failed

\* C4 witness: a link was streamed at the instant it was minted, and the same
\* link, presented after its expiry, has just been refused.
C4_Witness ==
    \E l \in issued :
        /\ \E i \in 1..Len(viewlog) :
              viewlog[i].media_id = l.media_id /\ viewlog[i].timestamp = l.minted_at
        /\ IsStream /\ Carried = RouteStream(l.url)
        /\ resp.time > resp.exp /\ Failed /\ resp.status = 403

\* C5: verification of a correctly signed link succeeds before exp and fails
\* whenever now >= exp, with no grace period (exp = 1600: true at 1599, false
\* at 1600 and later).
C5_ExpiryBoundary ==
    \A l \in issued :
        (IsStream /\ Carried = RouteStream(l.url)) =>
            /\ resp.time < resp.exp => Passed
            /\ resp.time >= resp.exp => Failed

\* C6: for a minted, unexpired link, replacing exactly one of media path,
\* expiry and signature by another value makes verification return false,
\* without raising.
C6_TamperSensitivity ==
    \A l \in issued :
        (IsStream /\ resp.time < RouteStream(l.url).exp
                  /\ Cardinality(Changed(RouteStream(l.url))) = 1) => Failed

\* C7: the streaming endpoint looks up the media, writes the view log and
\* serves the file only for a request that passed verification; every other
\* request is rejected with 403 after the verification alone.
C7_VerifiedBeforeServing ==
    IsStream => \/ Passed
                \/ /\ resp.status = 403
                   /\ resp.steps = <<"verify">>

\* C8: the URL the stream-url endpoint returned for media m, requested as it
\* is before its expiry, passes verification at the streaming endpoint; its
\* exp and sig presented for another media id are rejected with 403.
C8_LinkBinding ==
    \A l \in issued :
        LET p == RouteStream(l.url) IN
        /\ p.media_id = l.media_id
        /\ IsStream =>
              /\ (Carried = p /\ resp.time < p.exp) => (Passed /\ resp.status # 403)
              /\ Changed(p) = {"media_id"} =>
                    (resp.status = Forbidden.status /\ resp.detail = Forbidden.detail)

\* C8 witness: the issued URL was streamed, and its exp and sig have then been
\* refused for another media id while the link was still unexpired.
C8_Witness ==
    \E l \in issued :
        /\ \E i \in 1..Len(viewlog) : viewlog[i].media_id = l.media_id
        /\ IsStream /\ Changed(RouteStream(l.url)) = {"media_id"}
        /\ resp.media_id \in 1..assets
        /\ resp.time < resp.exp /\ resp.status = 403

\* The two reasons for which a presented link is not valid.
LinkExpired == resp.exp < resp.time
BadSignature == resp.sig # sign_stream_path(StreamPath(resp.media_id), resp.exp)

\* C9: an expired link and a link with an invalid signature get the same
\* response: 403 with the detail 'Invalid or expired link'.
C9_GenericRejection ==
    (IsStream /\ (LinkExpired \/ BadSignature)) =>
        (resp.status = Forbidden.status /\ resp.detail = Forbidden.detail)

----------------------------------------------------------------------------
(* Claims about the analytics cache *)

\* The last set_analytics for media m succeeded, nothing has invalidated the
\* key since, and its time to live has not run out.
Fresh(m) ==
    /\ m \in DOMAIN cachelog
    /\ cachelog[m].valid
    /\ now < cachelog[m].time + settings.CACHE_TTL

\* invalidate_analytics was called for media m after the last successful set.
Invalidated(m) == m \in DOMAIN cachelog /\ ~cachelog[m].valid

\* C10: with Redis answering, a get_analytics(id) that follows a successful
\* set_analytics(id, snapshot) before the TTL has elapsed, with no invalidate
\* in between, returns that snapshot; a get_analytics(id) that follows an
\* invalidate_analytics(id) returns absent until the next set.
C10_CacheAside ==
    \A m \in 1..MaxMedia :
        Reachable =>
            /\ Fresh(m) => get_analytics(m) = Ret(Some(cachelog[m].snapshot))
            /\ Invalidated(m) => get_analytics(m) = Ret(None)

\* C11: whenever the cache backend is unreachable (never connected, or failing
\* after a successful connection) get_analytics returns absent, set_analytics
\* returns False, invalidate_analytics returns False, and none of them raises.
C11_DegradedMode ==
    \A m \in 1..MaxMedia :
        ~Reachable =>
            /\ get_analytics(m) = Ret(None)
            /\ set_analytics(m, ComputeAnalytics(m)).outcome = Ret(FALSE)
            /\ invalidate_analytics(m).outcome = Ret(FALSE)

\* An authenticated analytics request for the existing media m is answered in this step.
AnalyticsServed(m) == m \in 1..assets /\ GetMediaAnalytics(m, TRUE)

\* An authenticated view-logging request for the existing media m is admitted
\* by the rate limiter in this step.
ViewAdmitted(m) ==
    /\ m \in 1..assets
    /\ \E r \in Requests : LogMediaView(m, r, TRUE)
    /\ last'.allowed

\* The view-log rows of media m, in insertion order.
RECURSIVE RowsIn(_, _)
RowsIn(log, m) ==
    IF log = <<>> THEN <<>>
    ELSE IF Head(log).media_id = m THEN <<Head(log)>> \o RowsIn(Tail(log), m)
    ELSE RowsIn(Tail(log), m)

\* C12: in every state of the cache backend (disabled, healthy, failing after
\* connect) an analytics read for an existing media answers 200 with the
\* snapshot recomputed from the view log, and an admitted view-logging request
\* answers 200 after persisting the view; neither ends in a 5xx error.
C12_OutageInvisible ==
    [][\A m \in 1..MaxMedia :
          /\ AnalyticsServed(m) =>
                (resp'.status = 200 /\ resp'.body.fields = ComputeAnalytics(m).fields)
          /\ ViewAdmitted(m) =>
                (resp'.status = 200 /\ Len(RowsIn(viewlog', m)) = Len(RowsIn(viewlog, m)) + 1)]_vars

\* A view-log row for media m is written in this step.
ViewWritten(m) == Len(RowsIn(viewlog', m)) > Len(RowsIn(viewlog, m))

\* C13: every operation that appends a view-log row for media m (the
\* view-logging endpoint and the streaming endpoint alike) invalidates the
\* cached analytics of m within the same request, so no view-log write
\* completes while a cached snapshot of m stays in place.
C13_InvalidationOnEveryWrite ==
    [][\A m \in 1..MaxMedia :
          ViewWritten(m) => CacheKey(m) \notin DOMAIN store']_vars

\* The row that a view request for media m by this client writes now.
ViewRow(m, request) ==
    [media_id |-> m, viewed_by_ip |-> ClientIp(request), timestamp |-> now]

\* The store without the analytics key of media m.
Without(st, m) == [k \in DOMAIN st \ {CacheKey(m)} |-> st[k]]

ViewsOf(m) == RowsIn(viewlog, m)
ViewerIps(m) == {ViewsOf(m)[i].viewed_by_ip : i \in 1..Len(ViewsOf(m))}
RecentViewsOf(m) ==
    Cardinality({i \in 1..Len(ViewsOf(m)) : now - ViewsOf(m)[i].timestamp <= SevenDays})

\* C15: an analytics read for media m, with no other request in flight,
\* reports total_views = the number of view-log rows of m written so far (by
\* the view-logging or the streaming endpoint), unique_viewers = the number of
\* distinct viewer IPs among them and recent_views_7days = the number of them
\* within the last 7 days, whether served from the cache or recomputed.
C15_AnalyticsMatchLog ==
    [][\A m \in 1..MaxMedia :
          AnalyticsServed(m) =>
              /\ resp'.status = 200
              /\ resp'.body.fields.total_views = Len(ViewsOf(m))
              /\ resp'.body.fields.unique_viewers = Cardinality(ViewerIps(m))
              /\ resp'.body.fields.recent_views_7days = RecentViewsOf(m)]_vars

\* Every key in the store was written by the last successful set_analytics of
\* its media, expires CACHE_TTL after that write, and has not expired yet.
LivesAtMostTtl ==
    \A m \in 1..MaxMedia :
        CacheKey(m) \in DOMAIN store =>
            /\ m \in DOMAIN cachelog
            /\ store[CacheKey(m)].expires_at = cachelog[m].time + settings.CACHE_TTL
            /\ now < cachelog[m].time + settings.CACHE_TTL

\* The analytics read of this step is a cache hit.
IsHit == resp'.endpoint = "analytics" /\ resp'.cache_get.value.present

\* C16: an entry written by set_analytics at time t is not returned by
\* get_analytics at any time >= t + CACHE_TTL (a read never extends its life
\* and a hit never rewrites it), and it is removed earlier by the next
\* view-log write of its media.
C16_BoundedStaleness ==
    [][/\ LivesAtMostTtl'
       /\ \A m \in 1..MaxMedia :
             /\ (AnalyticsServed(m) /\ IsHit) => store' = store
             /\ ViewWritten(m) => CacheKey(m) \notin DOMAIN store']_vars

\* What get_analytics holds for media m that the endpoint treats as a hit.
HitFor(m) == get_analytics(m).value.present /\ Truthy(get_analytics(m).value.value)

\* C17: for an existing media the analytics endpoint consults get_analytics
\* once, before any recomputation; on a hit it returns the cached value and
\* neither recomputes nor writes the cache; on a miss it recomputes from the
\* view log, calls set_analytics once with the new snapshot, and returns that
\* snapshot whether or not the write succeeded.
C17_CacheAsideEndpoint ==
    [][\A m \in 1..MaxMedia :
          AnalyticsServed(m) =>
              /\ resp'.cache_get = get_analytics(m)
              /\ resp'.status = 200
              /\ HitFor(m) =>
                    /\ resp'.body = get_analytics(m).value.value
                    /\ resp'.cache_set = None
                    /\ store' = store
              /\ ~HitFor(m) =>
                    /\ resp'.body = ComputeAnalytics(m)
                    /\ resp'.cache_set = Some(set_analytics(m, ComputeAnalytics(m)).outcome)
                    /\ store' = set_analytics(m, ComputeAnalytics(m)).store]_vars

\* C18: check_rate_limit reports, on denial, remaining = 0 and currentCount =
\* the post-purge count, and changes nothing else; on admission, remaining =
\* L - currentCount - 1 and currentCount + 1; in both cases limit = L and
\* resetAtEpoch = now + W.
C18_RateLimitInfo ==
    [][\A t \in Threads : Returns(t) =>
          LET count == Len(requests[locals[t].client_id])
              info == last'.info
          IN /\ last'.allowed <=> count < Limit
             /\ info.limit = Limit
             /\ info.reset_at = locals[t].current_time + WindowSize
             /\ ~last'.allowed =>
                   /\ info.remaining = 0
                   /\ info.current_count = count
                   /\ requests' = requests
             /\ last'.allowed =>
                   /\ info.remaining = Limit - count - 1
                   /\ info.current_count = count + 1]_vars

\* C18 witness: after admissions that used up the quota, a check made at a
\* later instant has been denied and reports remaining 0 and the full count.
C18_Witness ==
    /\ last.kind = "check" /\ ~last.allowed
    /\ last.time > 0
    /\ last.info = [limit |-> Limit, remaining |-> 0,
                    reset_at |-> last.time + WindowSize, current_count |-> Limit]
    /\ Len(requests[last.client]) = Limit
    /\ AllIdle

\* The deque of client c, empty when the client has none yet.
SeqOf(reqs, c) == IF c \in DOMAIN reqs THEN reqs[c] ELSE <<>>

\* Thread t purges in this step: the head of its client's deque, older than
\* the window at the time the call read, is dropped and nothing else changes.
PurgesHead(t) ==
    LET before == SeqOf(requests, locals[t].client_id) IN
    /\ before # <<>>
    /\ locals[t].current_time - Head(before) > WindowSize
    /\ SeqOf(requests', locals[t].client_id) = Tail(before)

\* C19: a denied check_rate_limit call appends nothing: apart from purging
\* entries older than the window, the client's timestamp sequence after the
\* call is the sequence before it, and the sequences of all other clients are
\* untouched.
C19_DeniedAppendsNothing ==
    [][\A t \in Threads : pc'[t] # pc[t] =>
          /\ \A c2 \in ClientIds \ {ActingClient(t)} :
                SeqOf(requests', c2) = SeqOf(requests, c2)
          /\ (Returns(t) /\ ~last'.allowed) => requests' = requests
          /\ ~Returns(t) =>
                \/ SeqOf(requests', ActingClient(t)) = SeqOf(requests, ActingClient(t))
                \/ PurgesHead(t)]_vars

\* C19 witness: a call has just been denied while the client's deque holds
\* exactly the requests admitted before, and another client has a deque of
\* its own.
C19_Witness ==
    /\ last.kind = "check" /\ ~last.allowed /\ AllIdle
    /\ Len(requests[last.client]) = SumOver(Instants, admitted[last.client])
    /\ \A i \in 1..Len(requests[last.client]) : requests[last.client][i] <= last.time
    /\ \E c2 \in DOMAIN requests \ {last.client} : requests[c2] # <<>>

\* C20: a view-logging request denied by the rate limiter is rejected with the
\* rate-limit error before the handler runs: no view-log row is persisted and
\* invalidate_analytics is not called; a view is persisted by this endpoint
\* only for an admitted request.
C20_DeniedViewHasNoEffect ==
    [][\A m \in 1..MaxMedia, r \in Requests :
          LogMediaView(m, r, TRUE) =>
              /\ ~last'.allowed =>
                    /\ resp'.status = 429
                    /\ resp'.detail = TooManyRequests(last'.info).detail
                    /\ resp'.writes = <<>>
                    /\ viewlog' = viewlog
                    /\ store' = store
                    /\ cachelog' = cachelog
              /\ viewlog' # viewlog => (last'.allowed /\ resp'.status = 200)]_vars

\* C20 witness: a view-logging request has just been answered 429 while the
\* view log holds a row and the cache holds a snapshot, both left as they were.
C20_Witness ==
    /\ resp.endpoint = "view" /\ resp.status = 429
    /\ last.kind = "check" /\ ~last.allowed
    /\ viewlog # <<>>
    /\ resp.media_id \in 1..assets
    /\ CacheKey(resp.media_id) \in DOMAIN store

\* C21: whenever check_rate_limit denies, enforce_rate_limit rejects with 429
\* and a detail that carries limit = L, reset_at = the reset time of the
\* denied check and a retry-after hint equal to the window W; whenever the
\* check allows, enforce_rate_limit raises nothing and returns the check's info.
C21_RejectionDetail ==
    [][\A m \in 1..MaxMedia, r \in Requests :
          LogMediaView(m, r, TRUE) =>
              /\ enforce_rate_limit(last').raised <=> ~last'.allowed
              /\ ~last'.allowed =>
                    /\ resp'.status = 429
                    /\ resp'.detail.limit = Limit
                    /\ resp'.detail.reset_at = last'.info.reset_at
                    /\ resp'.detail.reset_at = now + WindowSize
                    /\ resp'.detail.retry_after = WindowSize
              /\ last'.allowed =>
                    /\ enforce_rate_limit(last') = Ret(last'.info)
                    /\ resp'.status # 429]_vars

\* C21 witness: a view-logging request made after the clock has moved has
\* been rejected with 429 and the detail of the denied check.
C21_Witness ==
    /\ resp.endpoint = "view" /\ resp.status = 429
    /\ last.kind = "check" /\ ~last.allowed /\ last.time > 0
    /\ resp.detail = [message |-> "Rate limit exceeded. Too many requests.",
                      limit |-> Limit, reset_at |-> last.time + WindowSize,
                      retry_after |-> WindowSize]

----------------------------------------------------------------------------
(* Claims about the client identity *)

Resolved == resp.endpoint = "client_id"

\* The first entry of a forwarded-for header, stripped; the empty header has
\* the one entry "".
FirstOf(header) == IF header = <<>> THEN "" ELSE header[1].text

\* The precedence by presence: a header counts as soon as it is sent.
ByPresence(request) ==
    IF request.forwarded.present THEN FirstOf(request.forwarded.value)
    ELSE IF request.real_ip.present THEN request.real_ip.value
    ELSE IF request.client.present THEN request.client.value
    ELSE "unknown"

\* The precedence by content: a header counts when it is sent and not empty.
ByContent(request) ==
    IF request.forwarded.present /\ request.forwarded.value # <<>>
    THEN FirstOf(request.forwarded.value)
    ELSE IF request.real_ip.present /\ request.real_ip.value # ""
    THEN request.real_ip.value
    ELSE IF request.client.present THEN request.client.value
    ELSE "unknown"

\* C22: the client identity is the first entry of the forwarded-for header if
\* that header is present, else the real-ip header if present, else the peer
\* address if the peer is known, else "unknown"; the resolution never fails.
C22_PrecedenceByPresence ==
    Resolved => resp.outcome = Ret(ByPresence(resp.request))

\* C22, amended: the same precedence with "present" read as "present and not
\* empty": an empty forwarded-for or real-ip header is passed over.
C22_PrecedenceByContent ==
    Resolved => resp.outcome = Ret(ByContent(resp.request))

\* C22 witness: both proxy headers were sent empty and the peer is unknown, and
\* the request was resolved to the "unknown" bucket.
C22_Witness ==
    /\ Resolved
    /\ resp.request = [forwarded |-> Some(<<>>), real_ip |-> Some(""), client |-> None]
    /\ resp.outcome = Ret("unknown")

----------------------------------------------------------------------------
(* Claims about the cache service without a backend *)

Disabled == redis_client = "None"

\* get, set and invalidate answer None, False and False for media m and leave
\* the keys as they are.
PassThrough(m) ==
    /\ get_analytics(m) = Ret(None)
    /\ set_analytics(m, ComputeAnalytics(m)) = [outcome |-> Ret(FALSE), store |-> store]
    /\ invalidate_analytics(m) = [outcome |-> Ret(FALSE), store |-> store]

\* C23: a cache service constructed while the backend cannot be reached is
\* constructed all the same and holds no client; a service without a client
\* stays without one, and its get, set and invalidate are no-ops that write no
\* key.
C23_StartupWithoutBackend ==
    /\ (backend = "down" => Disabled)
    /\ [](Disabled => store = <<>> /\ \A m \in 1..MaxMedia : PassThrough(m))
    /\ [][Disabled => Disabled']_vars

\* C23 witness: the service was constructed without a backend, and an analytics
\* read went through it: the get answered None, the set answered False, and
\* the computed numbers were served.
C23_Witness ==
    /\ Disabled
    /\ resp.endpoint = "analytics"
    /\ resp.status = 200
    /\ resp.cache_get = Ret(None)
    /\ resp.cache_set = Some(Ret(FALSE))
    /\ store = <<>>

----------------------------------------------------------------------------
(* Claims about the health check *)

\* C24: health_check always returns a status and never raises: "disabled"
\* exactly when the service holds no client, "healthy" when the ping is
\* answered, "error" when it is not; the call changes no cache entry and no
\* state of the service.
C24_HealthCheck ==
    [][HealthCheck =>
         /\ ~resp'.outcome.raised
         /\ resp'.outcome.value.status \in {"disabled", "healthy", "error"}
         /\ (resp'.outcome.value.status = "disabled") <=> (redis_client = "None")
         /\ (redis_client # "None" /\ backend = "up"
                => resp'.outcome.value.status = "healthy")
         /\ (redis_client # "None" /\ backend = "down"
                => resp'.outcome.value.status = "error")
         /\ store' = store
         /\ cachelog' = cachelog
         /\ redis_client' = redis_client]_vars

\* C24 witness: the service holds a client and a cached entry, the server has
\* stopped answering, and the health check has reported "error".
C24_Witness ==
    /\ resp.endpoint = "health"
    /\ resp.outcome.value.status = "error"
    /\ redis_client = "Redis"
    /\ backend = "down"
    /\ store # <<>>

----------------------------------------------------------------------------
(* Claims about the issue of stream links *)

HasExpAndSig(url) == {"exp", "sig"} \subseteq DOMAIN url.query

\* C25: a signed stream URL is issued only to an authenticated caller and only
\* for a media record that exists: an unauthenticated request gets 401, a
\* request for a media id without a record gets 404, and neither mints a link;
\* every issued URL carries an exp and a sig parameter.
C25_IssuedOnlyToAuthenticated ==
    /\ [][\A m \in 1..MaxMedia, authed \in BOOLEAN :
            GetStreamUrl(m, authed) =>
               /\ ~authed => resp'.status = 401 /\ issued' = issued
               /\ authed /\ m \notin 1..assets => resp'.status = 404 /\ issued' = issued
               /\ authed /\ m \in 1..assets =>
                     /\ resp'.status = 200
                     /\ HasExpAndSig(resp'.stream_url)
                     /\ issued' = issued \cup {[url |-> resp'.stream_url, media_id |-> m,
                                                  minted_at |-> now]}]_vars
    /\ [](\A l \in issued : l.media_id \in 1..assets /\ HasExpAndSig(l.url))

\* C25 witness: a stream-url request for a media id without a record was
\* answered 404 and no link exists, although a media record does.
C25_Witness ==
    /\ resp.endpoint = "stream-url"
    /\ resp.status = 404
    /\ assets >= 1
    /\ issued = {}

----------------------------------------------------------------------------
(* Claims about analytics of a media id without a record *)

NotFound(endpoint) ==
    [endpoint |-> endpoint, status |-> 404, detail |-> "Media not found"]

\* C26: an analytics read for a media id that has no media record returns 404
\* "Media not found" whatever the cache holds; the cache is neither read nor
\* written for such an id.
C26_NotFoundBeforeCache ==
    [][\A m \in 1..MaxMedia :
          GetMediaAnalytics(m, TRUE) /\ m \notin 1..assets =>
             /\ resp' = NotFound("analytics")
             /\ store' = store
             /\ cachelog' = cachelog]_vars

\* C26 witness: no media record exists, the cache holds a live key for every
\* media id, and an analytics read was answered 404.
C26_Witness ==
    /\ resp = NotFound("analytics")
    /\ assets = 0
    /\ Reachable
    /\ \A m \in 1..MaxMedia : get_analytics(m).value.present

----------------------------------------------------------------------------
(* Claims about the timestamp sequence of a client *)

NonDecreasing(dq) == \A i, j \in 1..Len(dq) : i < j => dq[i] <= dq[j]

\* No entry of the deque is older than the window that ends at t.
Trimmed(dq, t) == \A i \in 1..Len(dq) : ~(t - dq[i] > WindowSize)

\* C27: after every check_rate_limit call at time now, the client's timestamp
\* sequence is in non-decreasing order, holds at most L entries and holds no
\* entry with now - entry > W, also when calls for the same client overlap.
C27_SequenceAfterCall ==
    [][\A t \in Threads : Returns(t) =>
          LET dq == requests'[locals[t].client_id] IN
          /\ NonDecreasing(dq)
          /\ Len(dq) <= Limit
          /\ Trimmed(dq, locals[t].current_time)]_vars

----------------------------------------------------------------------------
(* Claims about the end of a throttle *)

\* C28: denied requests do not extend the throttle: a check made more than W
\* seconds after the client's oldest recorded request is admitted, however
\* many denied checks the client made in between, and a denied check leaves
\* the recorded requests as they were.
C28_DeniedDoNotExtend ==
    [][\A r \in Requests : CheckRateLimit(r) =>
          LET dq == SeqOf(requests, _get_client_id(r)) IN
          /\ (dq # <<>> /\ now - Head(dq) > WindowSize) => last'.allowed
          /\ ~last'.allowed =>
                /\ SeqOf(requests', _get_client_id(r)) = dq
                /\ now - Head(dq) <= WindowSize]_vars

\* C28 witness: with L = 1 a client was admitted at time 0, denied twice
\* within the window, and admitted on its first check after the window of its
\* first request had passed.
C28_Witness ==
    \E c \in ClientIds :
        /\ Limit = 1
        /\ DOMAIN requests = {c}
        /\ calls = Limit + 3
        /\ admitted[c][0] = 1
        /\ SumOver(Instants, admitted[c]) = 2
        /\ last.kind = "check" /\ last.client = c /\ last.allowed
        /\ last.time > WindowSize
        /\ requests[c] = <<last.time>>

----------------------------------------------------------------------------
(* Claims about analytics reads that overlap a view write *)

\* The total_views a returned value states, be it the AnalyticsOut object of a
\* miss or what the cache handed back on a hit.
TotalViewsIn(value) ==
    IF value.kind = "str" THEN value.text.repr_of.total_views
    ELSE value.fields.total_views

\* C29: once a view-logging request for media m has completed, every analytics
\* read for m that starts afterwards reports a total_views that includes that
\* view, also when another read for m was in flight during the write: a value
\* computed before the write is never written to the cache after the write's
\* invalidation.
C29_NoStaleAfterWrite ==
    [][\A t \in Threads :
          /\ \A m \in 1..assets :
                (AnalyticsCompute(t, m) /\ pc'[t] = "idle" /\ RowsOf(m) # {}) =>
                    /\ resp'.status = 200
                    /\ TotalViewsIn(resp'.body) = Cardinality(RowsOf(m))
          /\ AnalyticsStore(t) =>
                TotalViewsIn(locals[t].analytics_data)
                   = Cardinality(RowsOf(locals[t].media_id))]_vars

----------------------------------------------------------------------------
(* Claims about a hit next to a miss *)

\* The last request answered was a successful analytics read for media m.
JustRead(m) ==
    /\ resp.endpoint = "analytics"
    /\ "media_id" \in DOMAIN resp
    /\ resp.media_id = m
    /\ resp.status = 200

\* C30: a cache hit is observationally equal to a miss: with Redis answering,
\* an analytics read for an existing media that directly follows a successful
\* one, no view written in between, returns the same successful response, and
\* what get_analytics hands back on the second read is the snapshot that was
\* passed to set_analytics on the first.
C30_HitEqualsMiss ==
    [][\A m \in 1..MaxMedia :
          (JustRead(m) /\ Reachable /\ GetMediaAnalytics(m, TRUE)) =>
              /\ resp'.status = 200
              /\ resp'.body = resp.body
              /\ resp'.cache_get.value.present =>
                    resp'.cache_get = Ret(Some(resp.body))]_vars

----------------------------------------------------------------------------
(* Claims about the statelessness of the stream links *)

\* What verify_stream_signature answers for a URL at time t.
VerifyAt(url, t) ==
    verify_stream_signature(url.path, RouteStream(url).exp, RouteStream(url).sig, t)

\* C31: link verification is stateless and cannot be revoked: a minted link
\* verifies at every time before its expiry whatever happened in between
\* (links minted, views logged, requests denied by the rate limiter, cache
\* failures), and for every issued URL, as it is or tampered with, and every
\* time the result is the same before and after any step that leaves the
\* signing secret alone.
C31_StatelessVerification ==
    /\ [](\A l \in issued :
            now < RouteStream(l.url).exp => VerifyAt(l.url, now) = Ret(TRUE))
    /\ [][settings'.STREAM_SIGNING_SECRET = settings.STREAM_SIGNING_SECRET =>
            \A l \in issued : \A url \in TamperedUrls(l), t \in Instants :
                VerifyAt(url, t)' = VerifyAt(url, t)]_vars

\* C31 witness: after a link was minted, a view request was denied by the rate
\* limiter and Redis stopped answering; the link, used before its expiry,
\* verified, was served, and its view was logged.
C31_Witness ==
    /\ resp.endpoint = "stream"
    /\ resp.verified = Ret(TRUE)
    /\ resp.status = 200
    /\ resp.time < resp.exp
    /\ viewlog # <<>>
    /\ last.kind = "check" /\ ~last.allowed
    /\ redis_client = "Redis" /\ backend = "down"
    /\ \A l \in issued : now < RouteStream(l.url).exp /\ VerifyAt(l.url, now) = Ret(TRUE)

----------------------------------------------------------------------------
(* Claims about the client map of the rate limiter *)

\* C32: the rate limiter's client map only grows: the first check for a
\* client identity not seen before creates its entry, and no step removes a
\* client's entry, not even when all of its timestamps have been purged.
C32_ClientMapOnlyGrows ==
    [][/\ DOMAIN requests \subseteq DOMAIN requests'
       /\ \A t \in Threads :
             (pc[t] = "idle" /\ pc'[t] # "idle") =>
                 /\ locals'[t].client_id \in DOMAIN requests'
                 /\ DOMAIN requests' = DOMAIN requests \cup {locals'[t].client_id}
                 /\ locals'[t].client_id \notin DOMAIN requests =>
                       requests'[locals'[t].client_id] = <<>>]_vars

\* C32 witness: a client that was admitted before has had all of its
\* timestamps purged by a later check, and its entry is still in the map, next
\* to the entry of another client.
C32_Witness ==
    \E t \in Threads :
        /\ pc[t] = "decide"
        /\ SumOver(Instants, admitted[locals[t].client_id]) >= 1
        /\ requests[locals[t].client_id] = <<>>
        /\ Cardinality(DOMAIN requests) >= 2

----------------------------------------------------------------------------
(* Claims about a cache service whose first connection failed *)

ReportsDisabled == health_check.value.status = "disabled"

\* C33: the cache never recovers from a failed startup connection: a service
\* constructed while the backend is unreachable stays disabled for good, and
\* also once the backend has become reachable get_analytics returns absent,
\* set_analytics and invalidate_analytics return False, and health_check
\* reports "disabled".
C33_NoRecovery ==
    /\ (backend = "down" => Disabled)
    /\ [][Disabled => Disabled']_vars
    /\ [](Disabled =>
            /\ ~health_check.raised /\ ReportsDisabled
            /\ \A m \in 1..MaxMedia : PassThrough(m)
            /\ (resp.endpoint = "health" => resp.outcome.value.status = "disabled")
            /\ (resp.endpoint = "analytics" /\ resp.status = 200 =>
                   resp.cache_get = Ret(None) /\ resp.cache_set = Some(Ret(FALSE))))

\* C33 witness: the backend was unreachable at construction and answers now;
\* an analytics read went past the cache and the health check that followed
\* reported "disabled".
C33_Witness ==
    /\ Disabled
    /\ backend = "up"
    /\ assets >= 1
    /\ now > 0
    /\ resp.endpoint = "health"
    /\ resp.outcome.value.status = "disabled"
    /\ store = <<>>

----------------------------------------------------------------------------
(* Claims about the quota of requests that fail *)

\* C34: rate-limit quota is consumed at admission, not at success: an
\* authenticated view-logging request that the limiter admits and that then
\* fails with 404 because the media does not exist still takes one slot of the
\* client's window, although it writes no view and invalidates nothing.
C34_QuotaConsumedAtAdmission ==
    [][\A m \in 1..MaxMedia, r \in DirectRequests :
          LET cid == _get_client_id(r)
              before == _cleanup_old_requests(SeqOf(requests, cid), now)
          IN (LogMediaView(m, r, TRUE) /\ m \notin 1..assets
                /\ check_rate_limit(requests, cid, now).result.allowed) =>
                 /\ resp'.status = 404
                 /\ resp'.detail = "Media not found"
                 /\ cid \in DOMAIN requests'
                 /\ requests'[cid] = Append(before, now)
                 /\ EntriesInWindow(requests'[cid], now) = Len(before) + 1
                 /\ admitted'[cid][now] = admitted[cid][now] + 1
                 /\ resp'.writes = <<>>
                 /\ viewlog' = viewlog
                 /\ store' = store
                 /\ cachelog' = cachelog]_vars

\* C34 witness: a client whose requests were all for a media id without a
\* record, each answered 404, has used up its quota and is now answered 429;
\* no view was ever logged.
C34_Witness ==
    /\ resp.endpoint = "view" /\ resp.status = 429
    /\ last.kind = "check" /\ ~last.allowed
    /\ assets = 0
    /\ viewlog = <<>>
    /\ Len(requests[last.client]) = Limit
    /\ calls = Limit + 1

====
